---- MODULE Spec2Model ----
(***************************************************************************)
(* Model of kubious' AppState (src-tauri/src/api/application/state.rs):    *)
(* a registry of named KubeConfig values and one optional current          *)
(* selection, each behind its own std::sync::Mutex, used by concurrent     *)
(* callers.  Every lock acquisition is a step of its own, so blocking,     *)
(* lock poisoning and re-locking by the owning thread are visible.         *)
(***************************************************************************)
EXTENDS Naturals, FiniteSets, TLC

\* ------------------------------------------------------------------ bounds
NumThreads == 2
NumNames == 2

Threads == 1..NumThreads
Free == 0
Names == 1..NumNames
NoName == 0

\* a KubeConfig is a value the registry only clones; connect_timeout is the
\* one field state.rs reads or writes: 0 is None, 30 is Some(30 s)
ClusterUrls == {"https://cluster"}
Timeouts == {0, 30}
KubeConfig == [cluster_url : ClusterUrls, connect_timeout : Timeouts]
NoConfig == [cluster_url |-> "", connect_timeout |-> 0]

EmptyMap == [n \in {} |-> NoConfig]
HashMaps == UNION {[S -> KubeConfig] : S \in SUBSET Names}

VARIABLES
    configs,         \* AppState.configs: HashMap<String, KubeConfig>
    current_config,  \* AppState.current_config: Option<String>
    configs_lock,    \* the Mutex around configs: owner and poison flag
    current_lock,    \* the Mutex around current_config
    pc,              \* each caller's position
    op,              \* the method a caller is running
    key,             \* its name argument (NoName: None / no argument)
    config,          \* its KubeConfig argument
    local,           \* its clone of current_config (get_current_config, remove_config)
    ret,             \* the value it is returning
    written          \* history: the last KubeConfig put under each name since
                     \* the name was last removed

vars == <<configs, current_config, configs_lock, current_lock,
          pc, op, key, config, local, ret, written>>

\* ------------------------------------------------------------ return values
NoRet == [tag |-> "Pending", name |-> NoName, config |-> NoConfig, map |-> EmptyMap]
RetTag(g) == [NoRet EXCEPT !.tag = g]
RetConfig(g, c) == [NoRet EXCEPT !.tag = g, !.config = c]
RetPair(n, c) == [NoRet EXCEPT !.tag = "Some", !.name = n, !.config = c]
RetMap(m) == [NoRet EXCEPT !.tag = "Map", !.map = m]

\* ------------------------------------------------------------ HashMap
\* faulty variant of Insert: an entry that exists is kept (entry().or_insert)
InsertIfAbsent(m, k, v) == [n \in (DOMAIN m) \cup {k} |-> IF n \in DOMAIN m THEN m[n] ELSE v]

Insert(m, k, v) == [n \in (DOMAIN m) \cup {k} |-> IF n = k THEN v ELSE m[n]]

Remove(m, k) == [n \in (DOMAIN m) \ {k} |-> m[n]]

\* ------------------------------------------------------------ Mutex
UnlockedMutex == [owner |-> Free, poisoned |-> FALSE]

\* a panic unwinds the caller's frames: every guard it holds is dropped while
\* panicking, which releases and poisons that mutex; the caller is gone
Unwind(t, m) == IF m.owner = t THEN [owner |-> Free, poisoned |-> TRUE] ELSE m

Panic(t) ==
    /\ configs_lock' = Unwind(t, configs_lock)
    /\ current_lock' = Unwind(t, current_lock)
    /\ pc' = [pc EXCEPT ![t] = "panicked"]
    /\ ret' = [ret EXCEPT ![t] = RetTag("Panic")]

\* Mutex::lock called by the caller that already owns the mutex: the call
\* never returns; whether it blocks forever or panics is unspecified
Relock(t) ==
    \/ /\ pc' = [pc EXCEPT ![t] = "deadlocked"]
       /\ UNCHANGED <<configs_lock, current_lock, ret>>
    \/ Panic(t)

\* configs.lock(): waits while another caller owns the mutex; on a poisoned
\* mutex lock() is Err and the else branch panics
configs_mutable(t, next) ==
    IF configs_lock.owner = t
    THEN Relock(t)
    ELSE /\ configs_lock.owner = Free
         /\ IF configs_lock.poisoned
            THEN Panic(t)
            ELSE /\ configs_lock' = [configs_lock EXCEPT !.owner = t]
                 /\ pc' = [pc EXCEPT ![t] = next]
                 /\ UNCHANGED <<current_lock, ret>>

current_config_mutable(t, next) ==
    IF current_lock.owner = t
    THEN Relock(t)
    ELSE /\ current_lock.owner = Free
         /\ IF current_lock.poisoned
            THEN Panic(t)
            ELSE /\ current_lock' = [current_lock EXCEPT !.owner = t]
                 /\ pc' = [pc EXCEPT ![t] = next]
                 /\ UNCHANGED <<configs_lock, ret>>

\* a body step of caller t: it keeps its guards, moves to next and sets ret
Step(t, next, r) ==
    /\ pc' = [pc EXCEPT ![t] = next]
    /\ ret' = [ret EXCEPT ![t] = r]
    /\ UNCHANGED <<configs_lock, current_lock>>

\* ------------------------------------------------------------ construction
new ==
    /\ configs = EmptyMap
    /\ current_config = NoName
    /\ configs_lock = UnlockedMutex
    /\ current_lock = UnlockedMutex

\* ------------------------------------------------------------ snapshots
\* serde_json values of the field current_config
JsonNull == [type |-> "null", value |-> NoName]
JsonString(n) == [type |-> "string", value |-> n]
JsonNumber(n) == [type |-> "number", value |-> n]

\* Option<String>: None is null, Some(name) is the string
OptionToJson(cur) == IF cur = NoName THEN JsonNull ELSE JsonString(cur)

OptionFromJson(j) ==
    IF j.type = "null" THEN [tag |-> "Ok", value |-> NoName]
    ELSE IF j.type = "string" THEN [tag |-> "Ok", value |-> j.value]
    ELSE [tag |-> "Err", value |-> NoName]

\* KubeConfig (crate::compat): an object with one member per attribute;
\* connect_timeout is null or a duration object
ConfigToJson(c) ==
    [cluster_url |-> c.cluster_url,
     connect_timeout |-> IF c.connect_timeout = 0
                         THEN [type |-> "null", secs |-> 0]
                         ELSE [type |-> "object", secs |-> c.connect_timeout]]

ConfigJsonOk(j) == j.connect_timeout.type \in {"null", "object"}

ConfigFromJson(j) ==
    [cluster_url |-> j.cluster_url,
     connect_timeout |-> IF j.connect_timeout.type = "null" THEN 0
                         ELSE j.connect_timeout.secs]

\* HashMap<String, KubeConfig>: an object with one member per key
MapToJson(m) == [n \in DOMAIN m |-> ConfigToJson(m[n])]

MapFromJson(o) ==
    IF \A n \in DOMAIN o : ConfigJsonOk(o[n])
    THEN [tag |-> "Ok", value |-> [n \in DOMAIN o |-> ConfigFromJson(o[n])]]
    ELSE [tag |-> "Err", value |-> EmptyMap]

\* faulty variant of Serialize: the field current_config is skipped and
\* written as null
SerializeSkipCurrent(m, cur) ==
    [configs |-> MapToJson(m), current_config |-> JsonNull]

\* the document to_json writes for the map m and the selection cur
Serialize(m, cur) ==
    [configs |-> MapToJson(m), current_config |-> OptionToJson(cur)]

DeserializeErr == [tag |-> "Err", configs |-> EmptyMap, current_config |-> NoName]

\* faulty variant of Deserialize: a selection that names no key of the map
\* is repaired to None
DeserializeRepair(doc) ==
    LET m == MapFromJson(doc.configs)
        c == OptionFromJson(doc.current_config)
    IN  IF m.tag = "Ok" /\ c.tag = "Ok"
        THEN [tag |-> "Ok", configs |-> m.value,
              current_config |-> IF c.value \in DOMAIN m.value THEN c.value ELSE NoName]
        ELSE DeserializeErr

\* serde_json::from_str: both fields are read as they are, each into a
\* fresh Mutex; nothing relates current_config to the keys of configs
Deserialize(doc) ==
    LET m == MapFromJson(doc.configs)
        c == OptionFromJson(doc.current_config)
    IN  IF m.tag = "Ok" /\ c.tag = "Ok"
        THEN [tag |-> "Ok", configs |-> m.value, current_config |-> c.value]
        ELSE DeserializeErr

\* the documents a snapshot file may hold, malformed ones included
JsonConfigs ==
    {ConfigToJson(c) : c \in KubeConfig}
        \cup {[cluster_url |-> u, connect_timeout |-> [type |-> "string", secs |-> 0]] :
                 u \in ClusterUrls}
JsonObjects == UNION {[S -> JsonConfigs] : S \in SUBSET Names}
Snapshots ==
    [configs : JsonObjects,
     current_config : {JsonNull} \cup {JsonString(n) : n \in Names}
                          \cup {JsonNumber(n) : n \in Names}]

\* a registry restored from a snapshot that from_json accepts
from_json ==
    /\ \E doc \in Snapshots :
          /\ Deserialize(doc).tag = "Ok"
          /\ configs = Deserialize(doc).configs
          /\ current_config = Deserialize(doc).current_config
    /\ configs_lock = UnlockedMutex
    /\ current_lock = UnlockedMutex

Callers ==
    /\ pc = [t \in Threads |-> "idle"]
    /\ op = [t \in Threads |-> "none"]
    /\ key = [t \in Threads |-> NoName]
    /\ config = [t \in Threads |-> NoConfig]
    /\ local = [t \in Threads |-> NoName]
    /\ ret = [t \in Threads |-> NoRet]

Init == new /\ Callers /\ written = configs

InitRestored == from_json /\ Callers /\ written = configs

\* ------------------------------------------------------------ calls
Entry(o) ==
    CASE o = "put_compat_config" -> "put_lock"
      [] o = "get_configs" -> "list_lock"
      [] o = "select_config" -> "sel_lock"
      [] o = "set_current_config" -> "sc_lock_current"
      [] o = "get_current_config" -> "gc_lock_current"
      [] o = "remove_config" -> "rm_lock_configs"
      [] o = "put_kubeconfig" -> "pk_bound"
      [] o = "register_default" -> "rd_await"
      [] o = "client" -> "gc_lock_current"
      [] o = "client_for" -> "cf_lock"
      [] o = "to_json" -> "tj_lock_configs"
      [] o = "save_state" -> "sv_path"

\* put, list, setCurrent, getCurrent and remove
Operations == {"put_compat_config", "get_configs",
               "set_current_config", "get_current_config", "remove_config"}

\* put, list and get
PutOperations == {"put_compat_config", "get_configs", "select_config"}

\* the async methods that store a Config
StoreOperations == {"put_kubeconfig", "register_default"}

\* the async methods that build a client
ClientOperations == {"client", "client_for"}

\* the snapshot of a registry
JsonOperations == {"to_json"}

\* persistence, and remove
SaveOperations == {"save_state", "remove_config"}

\* the arguments a call of o takes
KeysOf(o) ==
    CASE o \in {"put_compat_config", "select_config", "remove_config",
                "put_kubeconfig", "client_for"} -> Names
      [] o = "set_current_config" -> Names \cup {NoName}
      [] OTHER -> {NoName}

\* put_kubeconfig takes a Kubeconfig document: one that converts to a Config,
\* or one whose conversion fails (NoConfig)
ConfigsOf(o) ==
    IF o = "put_compat_config" THEN KubeConfig
    ELSE IF o = "put_kubeconfig" THEN KubeConfig \cup {NoConfig}
    ELSE {NoConfig}

\* an idle caller invokes one of the methods ops
Invoke(t, ops) ==
    /\ pc[t] = "idle"
    /\ \E o \in ops : \E k \in KeysOf(o) : \E c \in ConfigsOf(o) :
          /\ op' = [op EXCEPT ![t] = o]
          /\ key' = [key EXCEPT ![t] = k]
          /\ config' = [config EXCEPT ![t] = c]
          /\ pc' = [pc EXCEPT ![t] = Entry(o)]
    /\ UNCHANGED <<configs, current_config, configs_lock, current_lock,
                   local, ret, written>>

\* the values a method called by the method o hands back to o
InnerTags(o) ==
    CASE o \in {"put_kubeconfig", "register_default"} -> {"Value"}
      [] o = "client" -> {"Some", "None"}
      [] o = "save_state" -> {"Json", "JsonErr"}
      [] OTHER -> {}

\* the call returns: its guards are dropped and the caller is idle again
Return(t) ==
    /\ pc[t] = "ret"
    /\ ret[t].tag \notin InnerTags(op[t])
    /\ configs_lock' = IF configs_lock.owner = t THEN UnlockedMutex ELSE configs_lock
    /\ current_lock' = IF current_lock.owner = t THEN UnlockedMutex ELSE current_lock
    /\ pc' = [pc EXCEPT ![t] = "idle"]
    /\ op' = [op EXCEPT ![t] = "none"]
    /\ key' = [key EXCEPT ![t] = NoName]
    /\ config' = [config EXCEPT ![t] = NoConfig]
    /\ local' = [local EXCEPT ![t] = NoName]
    /\ ret' = [ret EXCEPT ![t] = NoRet]
    /\ UNCHANGED <<configs, current_config, written>>

\* ------------------------------------------------------------ put_compat_config
put_compat_config_lock(t) ==
    /\ pc[t] = "put_lock"
    /\ configs_mutable(t, "put_insert")
    /\ UNCHANGED <<configs, current_config, op, key, config, local, written>>

\* faulty variant of put_compat_config_insert: the name put becomes the
\* selection
put_compat_config_insert_select(t) ==
    /\ pc[t] = "put_insert"
    /\ configs' = Insert(configs, key[t], config[t])
    /\ written' = [n \in (DOMAIN written) \cup {key[t]} |->
                      IF n = key[t] THEN config[t] ELSE written[n]]
    /\ current_config' = key[t]
    /\ Step(t, "ret", RetConfig("Value", config[t]))
    /\ UNCHANGED <<op, key, config, local>>

put_compat_config_insert(t) ==
    /\ pc[t] = "put_insert"
    /\ configs' = Insert(configs, key[t], config[t])
    /\ written' = [n \in (DOMAIN written) \cup {key[t]} |->
                      IF n = key[t] THEN config[t] ELSE written[n]]
    /\ Step(t, "ret", RetConfig("Value", config[t]))
    /\ UNCHANGED <<current_config, op, key, config, local>>

put_compat_config(t) == put_compat_config_lock(t) \/ put_compat_config_insert(t)

\* ------------------------------------------------------------ get_configs
\* faulty variant of get_configs_lock: the map is read without its guard
get_configs_lock_skip(t) ==
    /\ pc[t] = "list_lock"
    /\ Step(t, "list_clone", ret[t])
    /\ UNCHANGED <<configs, current_config, op, key, config, local, written>>

get_configs_lock(t) ==
    /\ pc[t] = "list_lock"
    /\ configs_mutable(t, "list_clone")
    /\ UNCHANGED <<configs, current_config, op, key, config, local, written>>

get_configs_clone(t) ==
    /\ pc[t] = "list_clone"
    /\ Step(t, "ret", RetMap(configs))
    /\ UNCHANGED <<configs, current_config, op, key, config, local, written>>

get_configs(t) == get_configs_lock(t) \/ get_configs_clone(t)

\* ------------------------------------------------------------ select_config
\* HashMap::get(key) and the clone of what it finds
Get(m, k) == IF k \in DOMAIN m THEN RetConfig("Some", m[k]) ELSE RetTag("None")

select_config_lock(t) ==
    /\ pc[t] = "sel_lock"
    /\ configs_mutable(t, "sel_get")
    /\ UNCHANGED <<configs, current_config, op, key, config, local, written>>

select_config_get(t) ==
    /\ pc[t] = "sel_get"
    /\ Step(t, "ret", Get(configs, key[t]))
    /\ UNCHANGED <<configs, current_config, op, key, config, local, written>>

select_config(t) == select_config_lock(t) \/ select_config_get(t)

\* ------------------------------------------------------------ set_current_config
\* let mut current = self.current_config_mutable();
set_current_config_lock(t) ==
    /\ pc[t] = "sc_lock_current"
    /\ current_config_mutable(t, IF key[t] = NoName THEN "sc_clear" ELSE "sc_lock_configs")
    /\ UNCHANGED <<configs, current_config, op, key, config, local, written>>

\* self.configs_mutable(): the guard is a temporary of the if-let, it lives
\* until the if-let statement ends
set_current_config_lock_configs(t) ==
    /\ pc[t] = "sc_lock_configs"
    /\ configs_mutable(t, "sc_get")
    /\ UNCHANGED <<configs, current_config, op, key, config, local, written>>

\* faulty variant of set_current_config_get: the configs guard is dropped right after
\* the lookup, before the selection is committed
set_current_config_get_unlocked(t) ==
    /\ pc[t] = "sc_get"
    /\ pc' = [pc EXCEPT ![t] = IF key[t] \in DOMAIN configs THEN "sc_commit" ELSE "ret"]
    /\ ret' = [ret EXCEPT ![t] = IF key[t] \in DOMAIN configs THEN ret[t] ELSE RetTag("Err")]
    /\ configs_lock' = UnlockedMutex
    /\ UNCHANGED <<configs, current_config, current_lock, op, key, config, local, written>>

\* faulty variant of set_current_config_get: the selection is assigned before the
\* lookup decides
set_current_config_get_assign_first(t) ==
    /\ pc[t] = "sc_get"
    /\ current_config' = key[t]
    /\ IF key[t] \in DOMAIN configs
       THEN Step(t, "sc_commit", ret[t])
       ELSE Step(t, "ret", RetTag("Err"))
    /\ UNCHANGED <<configs, op, key, config, local, written>>

\* if let Some(c) = ...get(name) { .. } else { Err("Unknown config name") }
set_current_config_get(t) ==
    /\ pc[t] = "sc_get"
    /\ IF key[t] \in DOMAIN configs
       THEN Step(t, "sc_commit", ret[t])
       ELSE Step(t, "ret", RetTag("Err"))
    /\ UNCHANGED <<configs, current_config, op, key, config, local, written>>

\* faulty variant of set_current_config_commit: the clone is returned but the
\* selection is not assigned
set_current_config_commit_no_assign(t) ==
    /\ pc[t] = "sc_commit"
    /\ Step(t, "ret", RetConfig("OkSome", configs[key[t]]))
    /\ UNCHANGED <<configs, current_config, op, key, config, local, written>>

\* *current = Some(name); Ok(Some(c.clone()))
set_current_config_commit(t) ==
    /\ pc[t] = "sc_commit"
    /\ current_config' = key[t]
    /\ Step(t, "ret", RetConfig("OkSome", configs[key[t]]))
    /\ UNCHANGED <<configs, op, key, config, local, written>>

\* *current = None; Ok(None)
set_current_config_clear(t) ==
    /\ pc[t] = "sc_clear"
    /\ current_config' = NoName
    /\ Step(t, "ret", RetTag("OkNone"))
    /\ UNCHANGED <<configs, op, key, config, local, written>>

set_current_config(t) ==
    \/ set_current_config_lock(t)
    \/ set_current_config_lock_configs(t)
    \/ set_current_config_get(t)
    \/ set_current_config_commit(t)
    \/ set_current_config_clear(t)

\* ------------------------------------------------------------ get_current_config
get_current_config_lock(t) ==
    /\ pc[t] = "gc_lock_current"
    /\ current_config_mutable(t, "gc_clone")
    /\ UNCHANGED <<configs, current_config, op, key, config, local, written>>

\* if let Some(current) = ...clone() { .. }  None
get_current_config_clone(t) ==
    /\ pc[t] = "gc_clone"
    /\ local' = [local EXCEPT ![t] = current_config]
    /\ IF current_config = NoName
       THEN Step(t, "ret", RetTag("None"))
       ELSE Step(t, "gc_lock_configs", ret[t])
    /\ UNCHANGED <<configs, current_config, op, key, config, written>>

get_current_config_lock_configs(t) ==
    /\ pc[t] = "gc_lock_configs"
    /\ configs_mutable(t, "gc_get")
    /\ UNCHANGED <<configs, current_config, op, key, config, local, written>>

\* faulty variant of CurrentOf: a selection that does not resolve is returned with a
\* default KubeConfig (unwrap_or_default)
CurrentOfUnchecked(cur, m) ==
    IF cur = NoName THEN RetTag("None")
    ELSE RetPair(cur, IF cur \in DOMAIN m THEN m[cur] ELSE NoConfig)

\* the value of get_current_config for selection cur and map m
CurrentOf(cur, m) ==
    IF cur # NoName /\ cur \in DOMAIN m THEN RetPair(cur, m[cur]) ELSE RetTag("None")

get_current_config_get(t) ==
    /\ pc[t] = "gc_get"
    /\ Step(t, "ret", CurrentOf(local[t], configs))
    /\ UNCHANGED <<configs, current_config, op, key, config, local, written>>

get_current_config(t) ==
    \/ get_current_config_lock(t)
    \/ get_current_config_clone(t)
    \/ get_current_config_lock_configs(t)
    \/ get_current_config_get(t)

\* ------------------------------------------------------------ remove_config
\* let mut configs = self.configs_mutable();
remove_config_lock(t) ==
    /\ pc[t] = "rm_lock_configs"
    /\ configs_mutable(t, "rm_lock_current")
    /\ UNCHANGED <<configs, current_config, op, key, config, local, written>>

\* let current = self.current_config_mutable();
remove_config_lock_current(t) ==
    /\ pc[t] = "rm_lock_current"
    /\ current_config_mutable(t, "rm_check")
    /\ UNCHANGED <<configs, current_config, op, key, config, local, written>>

\* faulty variant of remove_config_check: the selection is not compared with key
remove_config_check_skip(t) ==
    /\ pc[t] = "rm_check"
    /\ local' = [local EXCEPT ![t] = current_config]
    /\ Step(t, "rm_remove", ret[t])
    /\ UNCHANGED <<configs, current_config, op, key, config, written>>

\* if let Some(ck) = current.clone() { if ck == key.to_string() { .. } }
remove_config_check(t) ==
    /\ pc[t] = "rm_check"
    /\ local' = [local EXCEPT ![t] = current_config]
    /\ Step(t, IF current_config # NoName /\ current_config = key[t]
               THEN "rm_set_current" ELSE "rm_remove", ret[t])
    /\ UNCHANGED <<configs, current_config, op, key, config, written>>

\* let _ = self.set_current_config(None): its first statement locks
\* current_config again while this caller still holds the guard `current`;
\* the lock call does not return, so the rest of the nested call (which would
\* continue at rm_clear) is never run
remove_config_set_current(t) ==
    /\ pc[t] = "rm_set_current"
    /\ current_config_mutable(t, "rm_clear")
    /\ UNCHANGED <<configs, current_config, op, key, config, local, written>>

\* (*configs).remove(key);
remove_config_remove(t) ==
    /\ pc[t] = "rm_remove"
    /\ configs' = Remove(configs, key[t])
    /\ written' = [n \in {x \in DOMAIN written : x # key[t]} |-> written[n]]
    /\ Step(t, "ret", RetTag("Unit"))
    /\ UNCHANGED <<current_config, op, key, config, local>>

remove_config(t) ==
    \/ remove_config_lock(t)
    \/ remove_config_lock_current(t)
    \/ remove_config_check(t)
    \/ remove_config_set_current(t)
    \/ remove_config_remove(t)

\* ------------------------------------------------------------ put_config
\* KubeConfig::from(Config) and <KubeConfig as Into<Config>>::into: the
\* attributes are carried over one by one
FromConfig(c) == [cluster_url |-> c.cluster_url, connect_timeout |-> c.connect_timeout]

IntoConfig(k) == [cluster_url |-> k.cluster_url, connect_timeout |-> k.connect_timeout]

\* let mut configs = self.configs_mutable();
put_config_lock(t) ==
    /\ pc[t] = "pcfg_lock"
    /\ configs_mutable(t, "pcfg_insert")
    /\ UNCHANGED <<configs, current_config, op, key, config, local, written>>

\* let converted = KubeConfig::from(config); (*configs).insert(..); converted.clone()
put_config_insert(t) ==
    /\ pc[t] = "pcfg_insert"
    /\ configs' = Insert(configs, key[t], FromConfig(config[t]))
    /\ written' = [n \in (DOMAIN written) \cup {key[t]} |->
                      IF n = key[t] THEN FromConfig(config[t]) ELSE written[n]]
    /\ Step(t, "ret", RetConfig("Value", FromConfig(config[t])))
    /\ UNCHANGED <<current_config, op, key, config, local>>

put_config(t) == put_config_lock(t) \/ put_config_insert(t)

\* a method called by caller t has returned to its caller: the guards of the
\* method called are dropped, the caller goes on at next with r
Resume(t, next, r) ==
    /\ configs_lock' = IF configs_lock.owner = t THEN UnlockedMutex ELSE configs_lock
    /\ current_lock' = IF current_lock.owner = t THEN UnlockedMutex ELSE current_lock
    /\ pc' = [pc EXCEPT ![t] = next]
    /\ ret' = [ret EXCEPT ![t] = r]

\* ------------------------------------------------------------ put_kubeconfig
\* faulty variant of put_kubeconfig_bound: the configs guard is taken before
\* the conversion is awaited
put_kubeconfig_bound_locked(t) ==
    /\ pc[t] = "pk_bound"
    /\ configs_mutable(t, "pk_await")
    /\ UNCHANGED <<configs, current_config, op, key, config, local, written>>

\* let bound = KubeConfigOptions::default();
put_kubeconfig_bound(t) ==
    /\ pc[t] = "pk_bound"
    /\ Step(t, "pk_await", ret[t])
    /\ UNCHANGED <<configs, current_config, op, key, config, local, written>>

\* faulty variant of put_kubeconfig_await: a document that does not convert
\* is stored as an empty Config
put_kubeconfig_await_store(t) ==
    /\ pc[t] = "pk_await"
    /\ Step(t, "pcfg_lock", ret[t])
    /\ UNCHANGED <<configs, current_config, op, key, config, local, written>>

\* Config::from_custom_kubeconfig(config, &bound).await: the caller is
\* suspended here; then Ok(conf) goes on to put_config, Err returns Err
put_kubeconfig_await(t) ==
    /\ pc[t] = "pk_await"
    /\ IF config[t] # NoConfig
       THEN Step(t, "pcfg_lock", ret[t])
       ELSE Step(t, "ret", RetTag("Err"))
    /\ UNCHANGED <<configs, current_config, op, key, config, local, written>>

\* Ok(self.put_config(key, conf))
put_kubeconfig_ok(t) ==
    /\ pc[t] = "ret" /\ op[t] = "put_kubeconfig" /\ ret[t].tag = "Value"
    /\ Resume(t, "ret", RetConfig("OkValue", ret[t].config))
    /\ UNCHANGED <<configs, current_config, op, key, config, local, written>>

put_kubeconfig(t) ==
    \/ put_kubeconfig_bound(t)
    \/ put_kubeconfig_await(t)
    \/ put_kubeconfig_ok(t)

\* ------------------------------------------------------------ register_default
\* the reserved name "default"
DefaultName == 1

\* Config::infer().await: the caller is suspended here; then Ok(inferred)
\* goes on to put_config("default", inferred), Err returns None
register_default_await(t) ==
    /\ pc[t] = "rd_await"
    /\ \/ \E c \in KubeConfig :
             /\ config' = [config EXCEPT ![t] = c]
             /\ key' = [key EXCEPT ![t] = DefaultName]
             /\ Step(t, "pcfg_lock", ret[t])
       \/ /\ Step(t, "ret", RetTag("None"))
          /\ UNCHANGED <<key, config>>
    /\ UNCHANGED <<configs, current_config, op, local, written>>

\* Some(KubeConfig::from(inferred))
register_default_some(t) ==
    /\ pc[t] = "ret" /\ op[t] = "register_default" /\ ret[t].tag = "Value"
    /\ Resume(t, "ret", RetConfig("Some", FromConfig(config[t])))
    /\ UNCHANGED <<configs, current_config, op, key, config, local, written>>

register_default(t) == register_default_await(t) \/ register_default_some(t)

\* ------------------------------------------------------------ client
\* Duration::from_secs(10)
ConnectTimeoutSecs == 10

\* if let Some(cur) = self.get_current_config() { .. } else { None }
client_current(t) ==
    /\ pc[t] = "ret" /\ op[t] = "client" /\ ret[t].tag \in {"Some", "None"}
    /\ IF ret[t].tag = "Some"
       THEN Resume(t, "cl_timeout", ret[t])
       ELSE Resume(t, "ret", RetTag("NoClient"))
    /\ UNCHANGED <<configs, current_config, op, key, config, local, written>>

\* faulty variant of WithTimeout: a timeout the KubeConfig has is kept
WithTimeoutIfNone(k) ==
    IF k.connect_timeout = 0 THEN [k EXCEPT !.connect_timeout = ConnectTimeoutSecs] ELSE k

\* connect_timeout = Some(Duration::from_secs(10)) on the clone
WithTimeout(k) == [k EXCEPT !.connect_timeout = ConnectTimeoutSecs]

\* let mut current = cur.clone(); current.1.connect_timeout = Some(..);
\* the clone is converted into the Config handed to Client::try_from
client_timeout(t) ==
    /\ pc[t] = "cl_timeout"
    /\ Step(t, "cl_try", RetConfig("Config", IntoConfig(WithTimeout(ret[t].config))))
    /\ UNCHANGED <<configs, current_config, op, key, config, local, written>>

\* match Client::try_from(..) { Ok(cl) => Some(cl), Err(_) => None }
client_try(t) ==
    /\ pc[t] = "cl_try"
    /\ \/ Step(t, "ret", RetConfig("Client", ret[t].config))
       \/ Step(t, "ret", RetConfig("NoClient", ret[t].config))
    /\ UNCHANGED <<configs, current_config, op, key, config, local, written>>

client(t) ==
    \/ get_current_config(t)
    \/ client_current(t)
    \/ client_timeout(t)
    \/ client_try(t)

\* ------------------------------------------------------------ client_for
\* (*self.configs_mutable()): the guard is a temporary of the if-let, it
\* lives until the if-let ends, so over Client::try_from as well
client_for_lock(t) ==
    /\ pc[t] = "cf_lock"
    /\ configs_mutable(t, "cf_get")
    /\ UNCHANGED <<configs, current_config, op, key, config, local, written>>

\* if let Some(sel) = ...get(key) { let mut select = sel.clone(); .. } else { None }
client_for_get(t) ==
    /\ pc[t] = "cf_get"
    /\ IF key[t] \in DOMAIN configs
       THEN Step(t, "cf_timeout", RetConfig("Clone", configs[key[t]]))
       ELSE Step(t, "ret", RetTag("NoClient"))
    /\ UNCHANGED <<configs, current_config, op, key, config, local, written>>

\* select.connect_timeout = Some(Duration::from_secs(10));
client_for_timeout(t) ==
    /\ pc[t] = "cf_timeout"
    /\ Step(t, "cf_try", RetConfig("Config", IntoConfig(WithTimeout(ret[t].config))))
    /\ UNCHANGED <<configs, current_config, op, key, config, local, written>>

\* match Client::try_from(..) { Ok(cl) => Some(cl), Err(_) => None }
client_for_try(t) ==
    /\ pc[t] = "cf_try"
    /\ \/ Step(t, "ret", RetConfig("Client", ret[t].config))
       \/ Step(t, "ret", RetConfig("NoClient", ret[t].config))
    /\ UNCHANGED <<configs, current_config, op, key, config, local, written>>

client_for(t) ==
    \/ client_for_lock(t)
    \/ client_for_get(t)
    \/ client_for_timeout(t)
    \/ client_for_try(t)

\* ------------------------------------------------------------ to_json
\* serde_json::to_string(self): the derive writes the fields in order; a
\* Mutex field is locked for the time its value is written, a poisoned one
\* makes the serialization fail
to_json_lock_configs(t) ==
    /\ pc[t] = "tj_lock_configs"
    /\ configs_lock.owner = Free
    /\ IF configs_lock.poisoned
       THEN /\ Step(t, "ret", RetTag("JsonErr"))
       ELSE /\ configs_lock' = [configs_lock EXCEPT !.owner = t]
            /\ pc' = [pc EXCEPT ![t] = "tj_configs"]
            /\ UNCHANGED <<current_lock, ret>>
    /\ UNCHANGED <<configs, current_config, op, key, config, local, written>>

to_json_configs(t) ==
    /\ pc[t] = "tj_configs"
    /\ Resume(t, "tj_lock_current", [NoRet EXCEPT !.tag = "Partial", !.map = configs])
    /\ UNCHANGED <<configs, current_config, op, key, config, local, written>>

to_json_lock_current(t) ==
    /\ pc[t] = "tj_lock_current"
    /\ current_lock.owner = Free
    /\ IF current_lock.poisoned
       THEN /\ Step(t, "ret", RetTag("JsonErr"))
       ELSE /\ current_lock' = [current_lock EXCEPT !.owner = t]
            /\ pc' = [pc EXCEPT ![t] = "tj_current"]
            /\ UNCHANGED <<configs_lock, ret>>
    /\ UNCHANGED <<configs, current_config, op, key, config, local, written>>

\* the document is Serialize(ret.map, ret.name)
to_json_current(t) ==
    /\ pc[t] = "tj_current"
    /\ Resume(t, "ret", [ret[t] EXCEPT !.tag = "Json", !.name = current_config])
    /\ UNCHANGED <<configs, current_config, op, key, config, local, written>>

to_json(t) ==
    \/ to_json_lock_configs(t)
    \/ to_json_configs(t)
    \/ to_json_lock_current(t)
    \/ to_json_current(t)

\* ------------------------------------------------------------ save_state
\* if let Ok(path) = handle.path().parse(..) { .. } else { Err(..) }
save_state_path(t) ==
    /\ pc[t] = "sv_path"
    /\ \/ Step(t, "sv_create", ret[t])
       \/ Step(t, "ret", RetTag("Err"))
    /\ UNCHANGED <<configs, current_config, op, key, config, local, written>>

\* File::create(path).unwrap()
save_state_create(t) ==
    /\ pc[t] = "sv_create"
    /\ \/ Step(t, "tj_lock_configs", ret[t])
       \/ Panic(t)
    /\ UNCHANGED <<configs, current_config, op, key, config, local, written>>

\* self.to_json().unwrap()
save_state_json(t) ==
    /\ pc[t] = "ret" /\ op[t] = "save_state" /\ ret[t].tag \in {"Json", "JsonErr"}
    /\ IF ret[t].tag = "Json"
       THEN Resume(t, "sv_write", ret[t])
       ELSE Panic(t)
    /\ UNCHANGED <<configs, current_config, op, key, config, local, written>>

\* config_file.write_all(..).unwrap(); Ok(())
save_state_write(t) ==
    /\ pc[t] = "sv_write"
    /\ \/ Step(t, "ret", RetTag("Ok"))
       \/ Panic(t)
    /\ UNCHANGED <<configs, current_config, op, key, config, local, written>>

save_state(t) ==
    \/ save_state_path(t)
    \/ save_state_create(t)
    \/ to_json(t)
    \/ save_state_json(t)
    \/ save_state_write(t)

\* ------------------------------------------------------------ specifications
Next ==
    \E t \in Threads :
        \/ Invoke(t, Operations)
        \/ put_compat_config(t)
        \/ get_configs(t)
        \/ set_current_config(t)
        \/ get_current_config(t)
        \/ remove_config(t)
        \/ Return(t)

\* a registry made by new()
Spec == Init /\ [][Next]_vars

\* a registry restored by from_json
SpecRestored == InitRestored /\ [][Next]_vars

\* only put, list and get are called, on a registry made by new()
NextPuts ==
    \E t \in Threads :
        \/ Invoke(t, PutOperations)
        \/ put_compat_config(t)
        \/ get_configs(t)
        \/ select_config(t)
        \/ Return(t)

SpecPuts == Init /\ [][NextPuts]_vars

\* the async methods that store a Config
NextStore ==
    \E t \in Threads :
        \/ Invoke(t, StoreOperations)
        \/ put_kubeconfig(t)
        \/ register_default(t)
        \/ put_config(t)
        \/ Return(t)

SpecStore == Init /\ [][NextStore]_vars

\* the async methods that build a client, on a registry restored by from_json
NextClient ==
    \E t \in Threads :
        \/ Invoke(t, ClientOperations)
        \/ client(t)
        \/ client_for(t)
        \/ Return(t)

SpecClient == InitRestored /\ [][NextClient]_vars

\* snapshots of a registry restored by from_json
NextJson ==
    \E t \in Threads :
        \/ Invoke(t, JsonOperations)
        \/ to_json(t)
        \/ Return(t)

SpecJson == InitRestored /\ [][NextJson]_vars

\* persistence, next to remove_config, on a registry restored by from_json
NextSave ==
    \E t \in Threads :
        \/ Invoke(t, SaveOperations)
        \/ save_state(t)
        \/ remove_config(t)
        \/ Return(t)

SpecSave == InitRestored /\ [][NextSave]_vars

\* ------------------------------------------------------------ properties
Others(t) == Threads \ {t}

Stopped == {"deadlocked", "panicked"}

\* C1 (I1): on a registry made by new(), in every reachable state of any
\* interleaving of put, remove, setCurrent, getCurrent and list, a selection
\* Some(name) names a key of configs.
C1_SelectionIsStored ==
    current_config # NoName => current_config \in DOMAIN configs

\* a remove_config has removed a key while another name is selected
C1_Witness ==
    /\ current_config # NoName
    /\ \E t \in Threads : op[t] = "remove_config" /\ pc[t] = "ret"

\* C2: remove(X) for a stored and selected X completes, and when it returns
\* X is not in configs and the selection is None.
C2_RemoveSelectedClears ==
    \A t \in Threads :
        (op[t] = "remove_config" /\ local[t] = key[t]) =>
            /\ pc[t] \notin Stopped
            /\ pc[t] = "ret" => (key[t] \notin DOMAIN configs /\ current_config = NoName)

\* C3: remove(name) by a single caller (every other caller idle) returns:
\* it neither panics nor blocks forever.
C3_RemoveNeverFails ==
    \A t \in Threads :
        (op[t] = "remove_config" /\ \A u \in Others(t) : pc[u] = "idle") =>
            pc[t] \notin Stopped

\* C4 as stated: when setCurrent(Some(X)) has confirmed that X exists and is
\* about to commit current = X, a concurrent remove(X) can take the configs
\* lock and remove X (leaving current = Some(X) with X not in configs).
C4_RemoveBetweenCheckAndCommit ==
    \A t \in Threads : \A u \in Others(t) :
        (pc[t] = "sc_commit" /\ op[u] = "remove_config" /\ key[u] = key[t]
            /\ pc[u] = "rm_lock_configs") => configs_lock.owner = Free

\* C4 amended: setCurrent(Some(X)) holds the configs lock from its lookup
\* until it has committed, so X is a key of configs when current = Some(X) is
\* committed, and while remove(X) and setCurrent(Some(X)) run concurrently no
\* state has current = Some(X) with X not in configs.
C4_CheckAndCommitAtomic ==
    /\ \A t \in Threads :
          pc[t] = "sc_commit" => (configs_lock.owner = t /\ key[t] \in DOMAIN configs)
    /\ \A t \in Threads : \A u \in Others(t) :
          (op[t] = "set_current_config" /\ op[u] = "remove_config"
              /\ key[t] # NoName /\ key[u] = key[t]) =>
                 ~(current_config = key[t] /\ key[t] \notin DOMAIN configs)

\* setCurrent(Some(X)) is about to commit while remove(X) waits for configs
C4_Witness ==
    \E t \in Threads : \E u \in Others(t) :
        /\ pc[t] = "sc_commit"
        /\ op[u] = "remove_config" /\ key[u] = key[t] /\ pc[u] = "rm_lock_configs"

\* C5 (P2): whenever get_current_config has taken the result Some((name, c)),
\* name is a key of configs at that instant (select_config(name) is Some),
\* also while remove(name), setCurrent(Some(name)) and put(name, _) run
\* concurrently and on a registry restored from a snapshot.
C5_SelectionValidity ==
    \A t \in Threads :
        (op[t] = "get_current_config" /\ pc[t] = "ret" /\ ret[t].tag = "Some") =>
            /\ ret[t].name \in DOMAIN configs
            /\ Get(configs, ret[t].name) = RetConfig("Some", ret[t].config)

\* get_current_config has taken Some((name, _)) while a remove(name) is waiting
C5_Witness ==
    \E t \in Threads : \E u \in Others(t) :
        /\ op[t] = "get_current_config" /\ pc[t] = "ret" /\ ret[t].tag = "Some"
        /\ op[u] = "remove_config" /\ key[u] = ret[t].name /\ pc[u] = "rm_lock_configs"

\* C6: a step of setCurrent(Some(name)) with name not a key of configs leaves
\* configs and the selection (so also the value of getCurrent) as they were,
\* and its lookup step returns Err.
C6_UnknownNameRejected ==
    [][\A t \in Threads :
          (op[t] = "set_current_config" /\ key[t] # NoName
              /\ key[t] \notin DOMAIN configs /\ pc'[t] # pc[t]) =>
                 /\ configs' = configs
                 /\ current_config' = current_config
                 /\ CurrentOf(current_config', configs') = CurrentOf(current_config, configs)
                 /\ pc[t] = "sc_get" => (pc'[t] = "ret" /\ ret'[t] = RetTag("Err"))]_vars

\* setCurrent(Some(name)) returns Err while another name is selected
C6_Witness ==
    \E t \in Threads :
        /\ op[t] = "set_current_config" /\ pc[t] = "ret" /\ ret[t].tag = "Err"
        /\ key[t] \notin DOMAIN configs
        /\ current_config # NoName

\* C7: setCurrent(Some(name)) with name a key of configs goes on to commit,
\* the commit sets the selection to name and returns Ok(Some(configs[name])),
\* and configs is unchanged.
C7_KnownNameSelected ==
    [][\A t \in Threads :
          (op[t] = "set_current_config" /\ pc[t] \in {"sc_get", "sc_commit"}
              /\ key[t] \in DOMAIN configs /\ pc'[t] # pc[t]) =>
                 /\ configs' = configs
                 /\ pc[t] = "sc_get" => pc'[t] = "sc_commit"
                 /\ pc[t] = "sc_commit" =>
                        /\ pc'[t] = "ret"
                        /\ ret'[t] = RetConfig("OkSome", configs[key[t]])
                        /\ current_config' = key[t]]_vars

\* setCurrent(Some(name)) returns Ok(Some(_)) over a different previous state
C7_Witness ==
    \E t \in Threads :
        /\ op[t] = "set_current_config" /\ pc[t] = "ret" /\ ret[t].tag = "OkSome"
        /\ current_config = key[t]
        /\ Cardinality(DOMAIN configs) > 1

\* C8 (P5): setCurrent(None) in any reachable state returns Ok(None): it does
\* not panic, it does not wait for a lock that is never released, and when it
\* returns the selection is None and getCurrent is None.
C8_ClearAlwaysSucceeds ==
    \A t \in Threads :
        (op[t] = "set_current_config" /\ key[t] = NoName) =>
            /\ pc[t] \notin Stopped
            /\ pc[t] = "sc_lock_current" =>
                  \A u \in Others(t) : ~(current_lock.owner = u /\ pc[u] = "deadlocked")
            /\ pc[t] = "ret" =>
                  /\ ret[t] = RetTag("OkNone")
                  /\ current_config = NoName
                  /\ CurrentOf(current_config, configs) = RetTag("None")

\* C9 (P1): after any sequence of put calls on a registry made by new(),
\* configs (and what get_configs returns) has exactly the names that were put,
\* each with the KubeConfig of the most recent put; each put returns the
\* KubeConfig it stored.
C9_LastWriteWins ==
    /\ configs = written
    /\ \A t \in Threads :
          (op[t] = "get_configs" /\ pc[t] = "ret") => ret[t] = RetMap(written)
    /\ \A t \in Threads :
          (op[t] = "put_compat_config" /\ pc[t] = "ret") =>
              /\ ret[t] = RetConfig("Value", config[t])
              /\ key[t] \in DOMAIN written /\ written[key[t]] = config[t]

\* get_configs returns every name while a put is about to overwrite one of them
C9_Witness ==
    \E t \in Threads : \E u \in Others(t) :
        /\ op[t] = "get_configs" /\ pc[t] = "ret" /\ DOMAIN ret[t].map = Names
        /\ op[u] = "put_compat_config" /\ pc[u] = "put_lock"
        /\ key[u] \in DOMAIN configs /\ configs[key[u]] # config[u]

\* C10 (P3): no step of remove(X) fails (panics or blocks forever), and a
\* remove(X) that finds X already removed changes neither configs nor the
\* selection.
C10_RemoveIdempotent ==
    [][\A t \in Threads :
          (op[t] = "remove_config" /\ pc'[t] # pc[t]) =>
              /\ pc'[t] \notin Stopped
              /\ (pc[t] = "rm_remove" /\ key[t] \notin DOMAIN configs) =>
                    (configs' = configs /\ current_config' = current_config)]_vars

\* C11 (P4): for every map and every selection (None included),
\* from_json(to_json(S)) is Ok and has the same map and the same selection;
\* so has from_json of the document a to_json call has returned.
C11_RoundTrip ==
    /\ Deserialize(Serialize(configs, current_config)) =
          [tag |-> "Ok", configs |-> configs, current_config |-> current_config]
    /\ \A t \in Threads :
          (op[t] = "to_json" /\ pc[t] = "ret") =>
              /\ ret[t].tag = "Json"
              /\ Deserialize(Serialize(ret[t].map, ret[t].name)) =
                    [tag |-> "Ok", configs |-> configs, current_config |-> current_config]

\* to_json has returned the document of a registry with every name stored, a
\* timeout set and a selection
C11_Witness ==
    /\ \E t \in Threads : op[t] = "to_json" /\ pc[t] = "ret"
    /\ DOMAIN configs = Names
    /\ \E n \in Names : configs[n].connect_timeout # 0
    /\ Serialize(configs, current_config).current_config.type = "string"

\* C12: get_current_config returns Some((n, configs[n])) exactly when the
\* selection is Some(n) and n is a key of configs, and None otherwise (no
\* selection, or a selection that names no key); none of its steps changes
\* configs or the selection.
C12_GetCurrent ==
    [][\A t \in Threads :
          (op[t] = "get_current_config" /\ pc'[t] # pc[t]) =>
              /\ configs' = configs
              /\ current_config' = current_config
              /\ pc'[t] = "ret" =>
                    IF current_config # NoName /\ current_config \in DOMAIN configs
                    THEN ret'[t] = RetPair(current_config, configs[current_config])
                    ELSE ret'[t] = RetTag("None")]_vars

\* get_current_config returns None for a selection that names no key
C12_Witness ==
    \E t \in Threads :
        /\ op[t] = "get_current_config" /\ pc[t] = "ret" /\ ret[t].tag = "None"
        /\ current_config # NoName /\ current_config \notin DOMAIN configs

\* the snapshot with the map m whose current_config is the name n
SnapshotOf(m, n) == [configs |-> MapToJson(m), current_config |-> JsonString(n)]

\* C13: from_json accepts a well-formed snapshot whose current_config names
\* no key of its configs, and the restored registry has exactly that map and
\* that selection (checked for every reachable map and every name it lacks).
C13_DanglingRestored ==
    \A n \in Names \ DOMAIN configs :
        /\ SnapshotOf(configs, n) \in Snapshots
        /\ Deserialize(SnapshotOf(configs, n)) =
              [tag |-> "Ok", configs |-> configs, current_config |-> n]

\* a restored registry, not yet used, whose selection names no key
C13_Witness ==
    /\ current_config # NoName /\ current_config \notin DOMAIN configs
    /\ configs # EmptyMap
    /\ Serialize(configs, current_config) = SnapshotOf(configs, current_config)
    /\ \A t \in Threads : pc[t] = "idle"

\* C17: the map get_configs returns is configs as it is while get_configs
\* holds the guard, whatever put and remove calls run concurrently.
C17_ListIsSnapshot ==
    \A t \in Threads :
        (op[t] = "get_configs" /\ pc[t] = "ret") =>
            (configs_lock.owner = t /\ ret[t] = RetMap(configs))

\* get_configs has cloned a map while a put or a remove waits for the guard
C17_Witness ==
    \E t \in Threads : \E u \in Others(t) :
        /\ op[t] = "get_configs" /\ pc[t] = "ret" /\ ret[t].map # EmptyMap
        /\ pc[u] \in {"put_lock", "rm_lock_configs"}

\* a caller that waits for a mutex another caller owns
WantsConfigs(t) ==
    pc[t] \in {"put_lock", "list_lock", "sel_lock", "sc_lock_configs",
               "gc_lock_configs", "rm_lock_configs"}

WantsCurrent(t) == pc[t] \in {"sc_lock_current", "gc_lock_current", "rm_lock_current"}

Blocked(t) ==
    \/ WantsConfigs(t) /\ configs_lock.owner \notin {Free, t}
    \/ WantsCurrent(t) /\ current_lock.owner \notin {Free, t}

\* C19: while no caller has failed, no state has every unfinished caller
\* waiting for a lock: some unfinished caller can take a step.
C19_DeadlockFree ==
    ((\A t \in Threads : pc[t] \notin Stopped) /\ (\E t \in Threads : pc[t] # "idle")) =>
        \E t \in Threads : pc[t] # "idle" /\ ~Blocked(t)

\* C20: no step of put changes the selection, and when the name put is the
\* selection, get_current_config then yields that name with the KubeConfig
\* just stored.
C20_PutKeepsSelection ==
    [][\A t \in Threads :
          (op[t] = "put_compat_config" /\ pc'[t] # pc[t]) =>
              /\ current_config' = current_config
              /\ (pc[t] = "put_insert" /\ current_config = key[t]) =>
                    CurrentOf(current_config', configs') = RetPair(key[t], config[t])]_vars

\* a put has stored a KubeConfig under the selected name
C20_Witness ==
    \E t \in Threads :
        /\ op[t] = "put_compat_config" /\ pc[t] = "ret"
        /\ current_config = key[t] /\ configs[key[t]] = config[t]


\* caller t takes the step
Moves(t) == pc'[t] # pc[t] \/ ret'[t] # ret[t]

\* C14: a conversion that fails leaves the registry and the selection as they
\* were: put_kubeconfig returns Err and register_default returns None, and no
\* later step of that call changes configs or current_config. A
\* register_default whose inference succeeds stores the converted Config
\* under the name "default" and returns it.
C14_FailedConversionStoresNothing ==
    [][\A t \in Threads :
          /\ (pc[t] = "pk_await" /\ config[t] = NoConfig /\ Moves(t)) =>
                (pc'[t] = "ret" /\ ret'[t] = RetTag("Err"))
          /\ (op[t] = "put_kubeconfig" /\ config[t] = NoConfig /\ Moves(t)) =>
                (configs' = configs /\ current_config' = current_config)
          /\ (pc[t] = "rd_await" /\ pc'[t] = "ret") =>
                (/\ ret'[t] = RetTag("None")
                 /\ configs' = configs
                 /\ current_config' = current_config)
          /\ (op[t] = "register_default" /\ pc[t] = "ret" /\ ret[t].tag = "None"
                  /\ Moves(t)) =>
                (configs' = configs /\ current_config' = current_config)
          /\ (op[t] = "register_default" /\ pc[t] = "pcfg_insert" /\ Moves(t)) =>
                (/\ DOMAIN configs' = (DOMAIN configs) \cup {DefaultName}
                 /\ configs'[DefaultName] = FromConfig(config[t])
                 /\ \A n \in (DOMAIN configs) \ {DefaultName} : configs'[n] = configs[n]
                 /\ current_config' = current_config
                 /\ ret'[t] = RetConfig("Value", configs'[DefaultName]))
          /\ (op[t] = "register_default" /\ pc[t] = "ret" /\ ret[t].tag = "Value"
                  /\ Moves(t)) =>
                (/\ pc'[t] = "ret"
                 /\ ret'[t] = RetConfig("Some", FromConfig(config[t]))
                 /\ configs' = configs
                 /\ current_config' = current_config)
    ]_vars

\* a put_kubeconfig has returned Err and a register_default has returned
\* None, while the registry holds a Config another call stored
C14_Witness ==
    /\ \E t \in Threads :
          op[t] = "put_kubeconfig" /\ pc[t] = "ret" /\ ret[t] = RetTag("Err")
    /\ \E t \in Threads :
          op[t] = "register_default" /\ pc[t] = "ret" /\ ret[t] = RetTag("None")
    /\ DefaultName \in DOMAIN configs

\* a caller is suspended in an await of put_kubeconfig or register_default
Suspended(t) == pc[t] \in {"pk_await", "rd_await"}

\* C18: a caller suspended in an async method owns neither mutex, so the
\* other callers can take both in the meantime.
C18_NoLockWhileSuspended ==
    \A t \in Threads :
        Suspended(t) => (configs_lock.owner # t /\ current_lock.owner # t)

\* one caller is suspended while another one owns the configs mutex
C18_Witness ==
    \E t \in Threads :
        /\ Suspended(t)
        /\ \E u \in Others(t) : pc[u] = "pcfg_insert" /\ configs_lock.owner = u


\* C15: client returns None when get_current_config gives None, client_for
\* returns None when the name has no Config; otherwise the Config handed to
\* the construction of the client is the stored KubeConfig with its connect
\* timeout replaced by 10 seconds, a construction that fails gives None, and
\* no step of either call changes configs (so neither the stored timeout)
\* or current_config.
C15_ClientFromStored ==
    [][\A t \in Threads :
          (op[t] \in ClientOperations /\ Moves(t)) =>
              /\ configs' = configs
              /\ current_config' = current_config
              /\ (op[t] = "client" /\ pc[t] = "ret" /\ ret[t].tag = "None") =>
                    (pc'[t] = "ret" /\ ret'[t] = RetTag("NoClient"))
              /\ (op[t] = "client" /\ pc[t] = "ret" /\ ret[t].tag = "Some") =>
                    (/\ ret[t] = RetPair(current_config, configs[current_config])
                     /\ pc'[t] = "cl_timeout"
                     /\ ret'[t] = ret[t])
              /\ pc[t] = "cl_timeout" =>
                    (/\ pc'[t] = "cl_try"
                     /\ ret'[t].config.cluster_url = ret[t].config.cluster_url
                     /\ ret'[t].config.connect_timeout = 10)
              /\ (pc[t] = "cf_get" /\ key[t] \notin DOMAIN configs) =>
                    (pc'[t] = "ret" /\ ret'[t] = RetTag("NoClient"))
              /\ (pc[t] = "cf_get" /\ key[t] \in DOMAIN configs) => pc'[t] = "cf_timeout"
              /\ pc[t] = "cf_timeout" => pc'[t] = "cf_try"
              /\ pc[t] = "cf_try" =>
                    (/\ configs_lock.owner = t
                     /\ ret[t].config.cluster_url = configs[key[t]].cluster_url
                     /\ ret[t].config.connect_timeout = 10)
              /\ pc[t] \in {"cl_try", "cf_try"} =>
                    (/\ pc'[t] = "ret"
                     /\ ret'[t].tag \in {"Client", "NoClient"}
                     /\ ret'[t].config = ret[t].config)
    ]_vars

\* a client is built for the selected Config and one for a named Config,
\* both stored with a timeout of their own
C15_Witness ==
    /\ \E t \in Threads :
          /\ op[t] = "client" /\ pc[t] = "ret" /\ ret[t].tag = "Client"
          /\ configs[current_config].connect_timeout \notin {0, 10}
    /\ \E t \in Threads :
          /\ op[t] = "client_for" /\ pc[t] = "ret" /\ ret[t].tag = "NoClient"
          /\ key[t] \in DOMAIN configs
          /\ configs[key[t]].connect_timeout \notin {0, 10}


\* C16: save_state never panics: a path that does not resolve, a file that
\* cannot be created and a write that fails all come back as Err. (Only
\* states where no mutex is poisoned are looked at.)
C16_SaveReturnsErr ==
    \A t \in Threads :
        (op[t] = "save_state" /\ ~configs_lock.poisoned /\ ~current_lock.poisoned) =>
            pc[t] # "panicked"

====
